---- MODULE Spec2Model ----
(***************************************************************************)
(* Model of openrlhf/trainer/ray/launcher.py: the construction of a        *)
(* PPORayActorGroup (placement decision, rank-0 worker, rendezvous fetch,  *)
(* ranks 1..world_size-1) and the group's asynchronous operations.         *)
(*                                                                         *)
(* Two specifications share the variables:                                 *)
(*   Spec     the driver constructs the groups, one step of               *)
(*            _initiate_actors at a time;                                  *)
(*   SpecOps  the driver, holding constructed groups, calls the group      *)
(*            operations and waits on the returned object refs.            *)
(***************************************************************************)
EXTENDS Integers, Sequences, FiniteSets, TLC

VARIABLES
    groups,   \* group id -> the constructed PPORayActorGroup, or NoGroup
    build,    \* the PPORayActorGroup.__init__ call in progress, or NoBuild
    op        \* the last group operation called: its arguments and its effects

vars == <<groups, build, op>>

----------------------------------------------------------------------------
(* Bounds of the model *)

MaxNodes == 2
MaxGpusPerNode == 2
MaxRewardGroups == 2

\* the groups the driver constructs, in the order it constructs them
GroupOrder == <<"g1", "g2">>
GroupIds == {GroupOrder[n] : n \in 1..Len(GroupOrder)}
\* the endpoints the cluster's nodes can answer: a node's ip address and the
\* free port its system hands out
NodeEndpoints == {<<"10.0.0.1", 29500>>, <<"10.0.0.2", 29501>>}
NodeIps == {e[1] : e \in NodeEndpoints}
FreePorts == {e[2] : e \in NodeEndpoints}
\* num_gpus_per_actor, in hundredths of a device (100 is the default 1)
GpuFractions == {50, 100}
RemoteUrls == <<"http://rm1", "http://rm2">>

----------------------------------------------------------------------------
(* Python values *)

\* None, where the other values of the variable are strings
None == "None"
\* None, where the other values are port numbers: `master_port if master_port
\* else ...` treats None and 0 alike
NonePort == 0
\* an Optional[list] / Optional[dict]: None, or the items in order
NoneList == [isNone |-> TRUE, items |-> <<>>]
PyList(s) == [isNone |-> FALSE, items |-> s]
PyLen(l) == Len(l.items)
\* truth value of an Optional[list]: None and the empty list are false
Truthy(l) == ~l.isNone /\ Len(l.items) > 0

\* an Optional[PlacementGroup]; a PlacementGroup object is always true
NonePg == [kind |-> "None", bundles |-> <<>>, strategy |-> None]
SuppliedPg == [kind |-> "supplied", bundles |-> <<>>, strategy |-> None]
PgTruthy(pg) == pg.kind # "None"

\* scheduling_strategy of a worker: absent, or a binding to a bundle of pg
Unbound == [bound |-> FALSE, placement_group |-> NonePg,
            placement_group_bundle_index |-> -1]
PlacementGroupSchedulingStrategy(pg, index) ==
    [bound |-> TRUE, placement_group |-> pg, placement_group_bundle_index |-> index]

----------------------------------------------------------------------------
(* DistributedTorchRayActor *)

\* What the worker's node answers when the worker resolves its own endpoint:
\* ok = FALSE when no address or port can be obtained.
Envs == {[ok |-> o, ip |-> e[1], port |-> e[2]] : o \in BOOLEAN, e \in NodeEndpoints}

NeedsResolve(master_addr, master_port) ==
    (master_addr = None \/ master_addr = "") \/ master_port = NonePort

\* fault: the endpoint passed by the group is ignored and the worker always
\* resolves its own
DistributedTorchRayActorInit_SelfAssign(world_size, rank, master_addr, master_port, env) ==
    IF ~env.ok
    THEN [alive |-> FALSE, _world_size |-> world_size, _rank |-> rank,
          _master_addr |-> None, _master_port |-> NonePort]
    ELSE [alive |-> TRUE, _world_size |-> world_size, _rank |-> rank,
          _master_addr |-> env.ip, _master_port |-> env.port]

\* __init__: the state of the remote worker process after construction.
\* A worker whose address or port lookup raises never comes alive.
DistributedTorchRayActorInit(world_size, rank, master_addr, master_port, env) ==
    IF NeedsResolve(master_addr, master_port) /\ ~env.ok
    THEN [alive |-> FALSE, _world_size |-> world_size, _rank |-> rank,
          _master_addr |-> None, _master_port |-> NonePort]
    ELSE [alive |-> TRUE, _world_size |-> world_size, _rank |-> rank,
          _master_addr |-> IF master_addr # None /\ master_addr # ""
                           THEN master_addr ELSE env.ip,
          _master_port |-> IF master_port # NonePort
                           THEN master_port ELSE env.port]

\* get_master_addr_port
GetMasterAddrPort(actor) == <<actor._master_addr, actor._master_port>>

\* ray_actor_type.options(...).remote(world_size, rank, master_addr, master_port):
\* the remote actor, with the options and the arguments it was created with
RemoteActor(num_gpus_per_actor, resources, strategy, world_size, rank, master_addr, master_port, env) ==
    [num_cpus |-> num_gpus_per_actor,
     num_gpus |-> num_gpus_per_actor,
     resources |-> resources,
     scheduling_strategy |-> strategy,
     args |-> [world_size |-> world_size, rank |-> rank,
               master_addr |-> master_addr, master_port |-> master_port],
     state |-> DistributedTorchRayActorInit(world_size, rank, master_addr,
                                            master_port, env)]

----------------------------------------------------------------------------
(* PPORayActorGroup.__init__ and _initiate_actors *)

NoGroup == [pc |-> "none"]
NoBuild == [pc |-> "idle"]
NoOp == [name |-> "none"]

\* the custom resources a caller may declare, with num_resources_per_node
ResourceArgs ==
    { [resources |-> NoneList, num_resources_per_node |-> 0],
      [resources |-> PyList(<<[key |-> "NPU", value |-> 1]>>),
       num_resources_per_node |-> 8] }

InitArgs ==
    [num_nodes : 1..MaxNodes, num_gpus_per_node : 1..MaxGpusPerNode,
     pg : {NonePg, SuppliedPg}, num_gpus_per_actor : GpuFractions,
     res : ResourceArgs]

\* __init__ up to the placement decision
Start(gid, a) ==
    [gid |-> gid,
     _num_nodes |-> a.num_nodes,
     _num_gpus_per_node |-> a.num_gpus_per_node,
     _resources |-> a.res.resources,
     _num_resources_per_node |-> a.res.num_resources_per_node,
     num_gpus_per_actor |-> a.num_gpus_per_actor,
     pg_arg |-> a.pg,
     pg |-> a.pg,
     world_size |-> a.num_nodes * a.num_gpus_per_node,
     master_addr |-> None,
     master_port |-> NonePort,
     rank |-> 0,
     _actor_handlers |-> <<>>,
     actors |-> <<>>,
     requests |-> <<>>,
     pg_answer |-> "none",
     fetch |-> "none",
     raised |-> None,
     pc |-> "placement"]

\* fault: a single-device-per-node group reserves a placement group too
NeedsNewPg_AnyDevices(num_gpus_per_node, pg) ==
    num_gpus_per_node >= 1 /\ pg.kind = "None"

\* the condition under which the group reserves its own placement group
NeedsNewPg(num_gpus_per_node, pg) == num_gpus_per_node > 1 /\ pg.kind = "None"

\* fault: the custom resource is reserved with the amount given in the
\* per-worker resources dict instead of the per-node amount
Bundle_ResourceValue(b) ==
    IF Truthy(b._resources)
    THEN LET resources_name == b._resources.items[1].key
         IN  [k \in {"GPU", "CPU", resources_name} |->
                 IF k = resources_name THEN b._resources.items[1].value
                 ELSE b._num_gpus_per_node]
    ELSE [k \in {"GPU", "CPU"} |-> b._num_gpus_per_node]

\* one bundle of the reservation
Bundle(b) ==
    IF Truthy(b._resources)
    THEN LET resources_name == b._resources.items[1].key
         IN  [k \in {"GPU", "CPU", resources_name} |->
                 IF k = resources_name THEN b._num_resources_per_node
                 ELSE b._num_gpus_per_node]
    ELSE [k \in {"GPU", "CPU"} |-> b._num_gpus_per_node]

Bundles(b) == [n \in 1..b._num_nodes |-> Bundle(b)]

\* placement_group(bundles, strategy="STRICT_SPREAD")
PlacementGroupOf(bundles) ==
    [kind |-> "created", bundles |-> bundles, strategy |-> "STRICT_SPREAD"]

\* fault: the group does not wait for its reservation
AfterReserve_NoWait == "master"

\* where the constructor goes once it has requested its placement group: into
\* ray.get(pg.ready())
AfterReserve == "pg_ready"

\* the placement decision; a new placement group is requested from the scheduler
PlacementStep(b) ==
    IF NeedsNewPg(b._num_gpus_per_node, b.pg)
    THEN [b EXCEPT !.pg = PlacementGroupOf(Bundles(b)),
                   !.requests = Append(@, PlacementGroupOf(Bundles(b))),
                   !.pg_answer = "pending",
                   !.pc = AfterReserve]
    ELSE [b EXCEPT !.pc = "master"]

\* the scheduler answers the reservation: every bundle is satisfied ("ready"),
\* or the cluster cannot satisfy the spread constraint ("refused")
SchedulerAnswersStep(b, answer) == [b EXCEPT !.pg_answer = answer]

\* fault: the constructor never waits on remote state
Blocked_Never(b) == FALSE

\* the constructor is inside a ray.get whose remote answer has not arrived
Blocked(b) ==
    \/ (b.pc = "pg_ready" /\ b.pg_answer = "pending")
    \/ (b.pc = "fetch" /\ b.fetch = "pending")

\* fault: a refused reservation is requested again under a relaxed policy
PgReadyStep_Relaxed(b) ==
    IF b.pg_answer = "refused"
    THEN [b EXCEPT !.pg = [kind |-> "created", bundles |-> Bundles(b),
                           strategy |-> "SPREAD"],
                   !.requests = Append(@, [kind |-> "created", bundles |-> Bundles(b),
                                           strategy |-> "SPREAD"]),
                   !.pc = "master"]
    ELSE [b EXCEPT !.pc = "master"]

\* ray.get(pg.ready()) returns, or raises the scheduler's refusal, which
\* nothing in the constructor catches
PgReadyStep(b) ==
    IF b.pg_answer = "refused"
    THEN [b EXCEPT !.raised = "PlacementError", !.pc = "raised"]
    ELSE [b EXCEPT !.pc = "master"]

\* fault: the rank is taken modulo, not divided by, the devices per node
BundleIndex_Mod(rank, num_gpus_per_node) == rank % num_gpus_per_node

\* fault: every worker gets a bundle of its own
BundleIndex_Rank(rank, num_gpus_per_node) == rank

\* the bundle a worker of the given rank is bound to
BundleIndex(rank, num_gpus_per_node) == rank \div num_gpus_per_node

\* the scheduling strategy of the rank-0 worker
MasterStrategy(b) ==
    IF PgTruthy(b.pg) THEN PlacementGroupSchedulingStrategy(b.pg, 0) ELSE Unbound

\* the scheduling strategy of a worker of rank >= 1
WorkerStrategy(b, rank) ==
    IF PgTruthy(b.pg)
    THEN PlacementGroupSchedulingStrategy(b.pg, BundleIndex(rank, b._num_gpus_per_node))
    ELSE Unbound

\* the handle of the n-th actor created for group gid
Handle(gid, n) == <<gid, n>>

\* fault: the endpoint is fetched from rank 0 whatever the world size
NeedsFetch_Always(world_size) == TRUE

\* whether the constructor fetches the endpoint of rank 0
NeedsFetch(world_size) == world_size > 1

\* the rank-0 worker is created and becomes the first handle; with more than
\* one worker the constructor then calls get_master_addr_port on it
CreateMasterStep(b, env) ==
    LET master_actor == RemoteActor(b.num_gpus_per_actor, b._resources,
                                    MasterStrategy(b), b.world_size, 0,
                                    None, NonePort, env)
    IN  [b EXCEPT !.actors = Append(@, master_actor),
                  !._actor_handlers = <<Handle(b.gid, Len(b.actors) + 1)>>,
                  !.fetch = IF NeedsFetch(b.world_size) THEN "pending" ELSE "none",
                  !.pc = IF NeedsFetch(b.world_size) THEN "fetch" ELSE "done"]

\* fault: the loop runs one rank too far
LoopDone_Late(rank, world_size) == rank > world_size

\* the end of `for rank in range(1, world_size)`
LoopDone(rank, world_size) == rank >= world_size

\* the rank-0 worker answers get_master_addr_port (with its endpoint, or, dead,
\* with its constructor's error)
MasterAnswersStep(b) == [b EXCEPT !.fetch = "answered"]

\* ray.get(master_actor.get_master_addr_port.remote()) returns: it raises when
\* the rank-0 worker died in its constructor
FetchStep(b) ==
    LET master == b.actors[b._actor_handlers[1][2]].state
    IN  IF b.fetch = "answered" /\ ~master.alive
        THEN [b EXCEPT !.raised = "RayActorError", !.pc = "raised"]
        ELSE [b EXCEPT !.master_addr = IF b.fetch = "answered"
                                       THEN GetMasterAddrPort(master)[1] ELSE None,
                       !.master_port = IF b.fetch = "answered"
                                       THEN GetMasterAddrPort(master)[2] ELSE NonePort,
                       !.rank = 1,
                       !.pc = IF LoopDone(1, b.world_size) THEN "done" ELSE "workers"]

\* the endpoint passed to the worker of the given rank
WorkerEndpoint(b) == <<b.master_addr, b.master_port>>

\* one iteration of the loop creating the workers of rank >= 1
CreateWorkerStep(b, env) ==
    LET worker_actor == RemoteActor(b.num_gpus_per_actor, b._resources,
                                    WorkerStrategy(b, b.rank), b.world_size, b.rank,
                                    WorkerEndpoint(b)[1], WorkerEndpoint(b)[2], env)
    IN  [b EXCEPT !.actors = Append(@, worker_actor),
                  !._actor_handlers = Append(@, Handle(b.gid, Len(b.actors) + 1)),
                  !.rank = b.rank + 1,
                  !.pc = IF LoopDone(b.rank + 1, b.world_size) THEN "done"
                         ELSE "workers"]

\* the next step of the constructor, whatever it is
Step(b, env) ==
    CASE b.pc = "placement" -> PlacementStep(b)
      [] b.pc = "pg_ready" /\ b.pg_answer = "pending" -> SchedulerAnswersStep(b, "ready")
      [] b.pc = "pg_ready" /\ b.pg_answer # "pending" -> PgReadyStep(b)
      [] b.pc = "master"    -> CreateMasterStep(b, env)
      [] b.pc = "fetch" /\ b.fetch = "pending" -> MasterAnswersStep(b)
      [] b.pc = "fetch" /\ b.fetch # "pending" -> FetchStep(b)
      [] b.pc = "workers"   -> CreateWorkerStep(b, env)
      [] OTHER              -> b

RECURSIVE Run(_, _)
Run(b, env) == IF b.pc \in {"done", "raised"} THEN b ELSE Run(Step(b, env), env)

\* PPORayActorGroup(...) run to its end on a cluster that satisfies every
\* reservation and where every worker's node answers env
Construct(gid, a, env) == Run(Start(gid, a), env)

----------------------------------------------------------------------------
(* The driver constructing groups: actions of Spec *)

Init ==
    /\ groups = [g \in GroupIds |-> NoGroup]
    /\ build = NoBuild
    /\ op = NoOp

\* the driver calls PPORayActorGroup(...)
BeginInit ==
    /\ build = NoBuild
    /\ \E n \in 1..Len(GroupOrder), a \in InitArgs :
          /\ groups[GroupOrder[n]] = NoGroup
          /\ \A m \in 1..(n - 1) : groups[GroupOrder[m]] # NoGroup
          /\ build' = Start(GroupOrder[n], a)
    /\ UNCHANGED <<groups, op>>

Placement ==
    /\ build.pc = "placement"
    /\ build' = PlacementStep(build)
    /\ UNCHANGED <<groups, op>>

\* the cluster scheduler answers the reservation the constructor waits for
SchedulerAnswers ==
    /\ build.pc = "pg_ready"
    /\ build.pg_answer = "pending"
    /\ \E answer \in {"ready", "refused"} : build' = SchedulerAnswersStep(build, answer)
    /\ UNCHANGED <<groups, op>>

PgReady ==
    /\ build.pc = "pg_ready"
    /\ ~Blocked(build)
    /\ build' = PgReadyStep(build)
    /\ UNCHANGED <<groups, op>>

CreateMaster ==
    /\ build.pc = "master"
    /\ \E env \in Envs : build' = CreateMasterStep(build, env)
    /\ UNCHANGED <<groups, op>>

\* the rank-0 worker answers the call the constructor waits for
MasterAnswers ==
    /\ build.pc = "fetch"
    /\ build.fetch = "pending"
    /\ build' = MasterAnswersStep(build)
    /\ UNCHANGED <<groups, op>>

Fetch ==
    /\ build.pc = "fetch"
    /\ ~Blocked(build)
    /\ build' = FetchStep(build)
    /\ UNCHANGED <<groups, op>>

CreateWorker ==
    /\ build.pc = "workers"
    /\ \E env \in Envs : build' = CreateWorkerStep(build, env)
    /\ UNCHANGED <<groups, op>>

\* __init__ returns the group to the driver
ReturnGroup ==
    /\ build.pc = "done"
    /\ groups' = [groups EXCEPT ![build.gid] = build]
    /\ build' = NoBuild
    /\ UNCHANGED op

\* the steps of the constructor itself
DriverStep ==
    \/ Placement
    \/ PgReady
    \/ CreateMaster
    \/ Fetch
    \/ CreateWorker
    \/ ReturnGroup

\* the steps of the cluster
RemoteStep ==
    \/ SchedulerAnswers
    \/ MasterAnswers

Next ==
    \/ BeginInit
    \/ DriverStep
    \/ RemoteStep

Spec == Init /\ [][Next]_vars

----------------------------------------------------------------------------
(* PPORayActorGroup.async_fit_actor_model *)

\* the worker handles of a constructed group
ActorHandlers(g) == groups[g]._actor_handlers

\* the remote actor behind a handle
ActorOf(h) == groups[h[1]].actors[h[2]]

\* no actor (critic_model=None)
NoneActor == <<>>

\* fault: any number of remote endpoints satisfies the precondition
RewardSourceOk_AnyUrls(a) ==
    \/ Truthy(a.remote_rm_urls)
    \/ (Truthy(a.reward_model_groups) /\ PyLen(a.reward_model_groups) = 1)
    \/ a.reward_fn # None

\* the reward precondition asserted on entry
RewardSourceOk(a) ==
    \/ (Truthy(a.remote_rm_urls) /\ PyLen(a.remote_rm_urls) = 1)
    \/ (Truthy(a.reward_model_groups) /\ PyLen(a.reward_model_groups) = 1)
    \/ a.reward_fn # None

\* fault: the index is clamped to the last peer instead of wrapping around
PeerIndex_Clamp(i, n) == IF i < n THEN i ELSE n - 1

\* round-robin index of the peer bound to policy worker i, in a peer list of n
PeerIndex(i, n) == i % n

\* the peer worker bound to policy worker i (i counts from 0)
PeerOf(actors, i) == actors[PeerIndex(i, Len(actors)) + 1]

\* fault: every policy worker triggers its critic
CriticTrainRemote_Always(i, n) == TRUE

\* fault: off by one, worker n triggers a critic as well
CriticTrainRemote_Le(i, n) == i <= n

\* whether policy worker i triggers the training of its critic
CriticTrainRemote(i, n) == i < n

\* fault: the reward workers are collected in reverse group order
RewardActors_Reversed(reward_model_groups, i) ==
    [k \in 1..Len(reward_model_groups) |->
        LET g == reward_model_groups[Len(reward_model_groups) + 1 - k]
        IN  groups[g]._actor_handlers[(i % Len(groups[g]._actor_handlers)) + 1]]

\* reward_actors of policy worker i: one worker per reward group, in list order
RewardActors(reward_model_groups, i) ==
    [k \in 1..Len(reward_model_groups) |->
        PeerOf(ActorHandlers(reward_model_groups[k]), i)]

\* actor.fit.remote(...) of iteration i: the remote call and its arguments
FitCall(self, a, i) ==
    LET critic_actors == IF a.critic_model_group # None
                         THEN ActorHandlers(a.critic_model_group) ELSE <<>>
        critic_actor == IF critic_actors # <<>> THEN PeerOf(critic_actors, i)
                        ELSE NoneActor
    IN  [actor |-> ActorHandlers(self)[i + 1],
         method |-> "fit",
         critic_model |-> critic_actor,
         initial_model |-> PeerOf(ActorHandlers(a.initial_model_group), i),
         reward_model |-> IF ~Truthy(a.remote_rm_urls)
                          THEN RewardActors(a.reward_model_groups.items, i)
                          ELSE <<>>,
         remote_rm_url |-> a.remote_rm_urls,
         reward_fn |-> a.reward_fn,
         inference_engines |-> a.inference_engines,
         critic_train_remote |->
            IF critic_actor # NoneActor
            THEN (IF CriticTrainRemote(i, Len(critic_actors)) THEN "True" ELSE "False")
            ELSE None]

\* the loop over the policy workers, from iteration i with the calls issued so
\* far: iterating reward_model_groups = None raises TypeError
RECURSIVE FitLoop(_, _, _, _)
FitLoop(self, a, i, calls) ==
    IF i >= Len(ActorHandlers(self))
    THEN [raised |-> None, calls |-> calls]
    ELSE IF ~Truthy(a.remote_rm_urls) /\ a.reward_model_groups.isNone
         THEN [raised |-> "TypeError", calls |-> calls]
         ELSE FitLoop(self, a, i + 1, Append(calls, FitCall(self, a, i)))

\* the whole method: the exception it raises, if any, and the remote calls it
\* has issued by then
FitActorModel(self, a) ==
    IF ~RewardSourceOk(a)
    THEN [raised |-> "AssertionError", calls |-> <<>>]
    ELSE IF a.critic_model_group = None
    THEN [raised |-> "AttributeError", calls |-> <<>>]
    ELSE IF a.initial_model_group = None
    THEN [raised |-> "AttributeError", calls |-> <<>>]
    ELSE FitLoop(self, a, 0, <<>>)

\* fault: the workers are called from the last to the first
Broadcast_Reversed(self, method, args) ==
    [raised |-> None,
     calls |-> [k \in 1..Len(ActorHandlers(self)) |->
                  [actor |-> ActorHandlers(self)[Len(ActorHandlers(self)) + 1 - k],
                   method |-> method, args |-> args]]]

\* [actor.<method>.remote(*args, **kwargs) for actor in self._actor_handlers]
Broadcast(self, method, args) ==
    [raised |-> None,
     calls |-> [k \in 1..Len(ActorHandlers(self)) |->
                  [actor |-> ActorHandlers(self)[k], method |-> method, args |-> args]]]

\* the methods the worker classes of this file expose to remote callers
ExposedMethods ==
    {"get_master_addr_port", "_setup_distributed", "init_model_from_pretrained",
     "forward", "empty_cache"}

\* fault: the rank-0 worker answers to any method name
HasMethod_MasterAny(h, method_name) ==
    method_name \in ExposedMethods \/ ActorOf(h).args.rank = 0

\* getattr(actor, method_name) finds the method; the workers of a group are
\* all of the group's ray_actor_type
HasMethod(h, method_name) == method_name \in ExposedMethods

\* the loop of async_run_method from worker i (counted from 0), with the
\* calls issued so far: getattr raises AttributeError on an unknown name
RECURSIVE RunMethodLoop(_, _, _, _, _)
RunMethodLoop(self, method_name, args, i, calls) ==
    IF i >= Len(ActorHandlers(self))
    THEN [raised |-> None, calls |-> calls]
    ELSE IF ~HasMethod(ActorHandlers(self)[i + 1], method_name)
         THEN [raised |-> "AttributeError", calls |-> calls]
         ELSE RunMethodLoop(self, method_name, args, i + 1,
                            Append(calls, [actor |-> ActorHandlers(self)[i + 1],
                                           method |-> method_name, args |-> args]))

\* async_run_method(method_name, *args, **kwargs)
RunMethod(self, method_name, args) == RunMethodLoop(self, method_name, args, 0, <<>>)

\* fault: an operation leaves the list of the group it is called on reversed
HandlersAfter_Reversed(g, self) ==
    IF g = self
    THEN [k \in 1..Len(ActorHandlers(g)) |-> ActorHandlers(g)[Len(ActorHandlers(g)) + 1 - k]]
    ELSE ActorHandlers(g)

\* the worker list of group g once an operation called on group self has
\* run: the operations iterate and index the lists and assign to none
HandlersAfter(g, self) == ActorHandlers(g)

\* the groups once an operation called on group self has run
GroupsAfter(self) ==
    [g \in GroupIds |->
        IF groups[g].pc = "done"
        THEN [groups[g] EXCEPT !._actor_handlers = HandlersAfter(g, self)]
        ELSE groups[g]]

\* the object refs returned: one per remote call, in call order
RefsOf(r) ==
    IF r.raised # None THEN <<>>
    ELSE [k \in 1..Len(r.calls) |->
             [actor |-> r.calls[k].actor, method |-> r.calls[k].method, call |-> k]]

----------------------------------------------------------------------------
(* The driver calling group operations: actions of SpecOps *)

\* lists of at most n elements of S
SeqsUpTo(S, n) == UNION {[1..k -> S] : k \in 0..n}

OptionalLists(S, n) == {NoneList} \cup {PyList(s) : s \in SeqsUpTo(S, n)}

UrlArgs ==
    {NoneList} \cup {PyList(SubSeq(RemoteUrls, 1, k)) : k \in 0..Len(RemoteUrls)}

FitArgs ==
    [critic_model_group : GroupIds \cup {None},
     initial_model_group : GroupIds \cup {None},
     reward_model_groups : OptionalLists(GroupIds, MaxRewardGroups),
     remote_rm_urls : UrlArgs,
     reward_fn : {None, "reward_fn"},
     inference_engines : {NoneList}]

\* the arguments the groups of SpecOps are constructed with: the topology
\* varies, the other arguments keep their defaults
OpsInitArgs ==
    {a \in InitArgs : /\ a.pg = NonePg
                      /\ a.num_gpus_per_actor = 100
                      /\ a.res.resources = NoneList}

OpsEnv == [ok |-> TRUE, ip |-> "10.0.0.1", port |-> 29500]

\* the groups the driver holds
Built == {g \in GroupIds : groups[g].pc = "done"}

\* the fit arguments that name only groups the driver holds
FitArgsOver(G) ==
    {a \in FitArgs :
        /\ a.critic_model_group \in G \cup {None}
        /\ a.initial_model_group \in G \cup {None}
        /\ \A k \in 1..PyLen(a.reward_model_groups) : a.reward_model_groups.items[k] \in G}

\* fault: an operation waits for every future before it returns them
AwaitedByOp_All(refs) == 1..Len(refs)

\* the futures, by position, that an operation passes to ray.get before it
\* returns: the operations call ray.get on none
AwaitedByOp(refs) == {}

\* what the driver holds when an operation called on group self comes back
\* with outcome r: the exception or the futures, and the remote executions
\* still pending at that point
Returned(name, self, args, r) ==
    [name |-> name, self |-> self, args |-> args,
     raised |-> r.raised, calls |-> r.calls, refs |-> RefsOf(r),
     pending |-> (1..Len(RefsOf(r))) \ AwaitedByOp(RefsOf(r))]

InitOps ==
    /\ \E f \in [GroupIds -> OpsInitArgs] :
          groups = [g \in GroupIds |-> Construct(g, f[g], OpsEnv)]
    /\ build = NoBuild
    /\ op = NoOp

AsyncFitActorModel ==
    /\ op = NoOp
    /\ \E self \in Built, a \in FitArgsOver(Built) :
          LET r == FitActorModel(self, a)
          IN  /\ op' = Returned("async_fit_actor_model", self, a, r)
              /\ groups' = GroupsAfter(self)
    /\ UNCHANGED build

\* the positional arguments of the broadcast calls
CallArgs == {<<>>, <<"ckpt">>}

\* the method names async_run_method is called with
MethodNames == {"empty_cache", "forward", "no_such_method"}

AsyncInitModelFromPretrained ==
    /\ op = NoOp
    /\ \E self \in Built, args \in CallArgs :
          LET r == Broadcast(self, "init_model_from_pretrained", args)
          IN  /\ op' = Returned("async_init_model_from_pretrained", self, args, r)
              /\ groups' = GroupsAfter(self)
    /\ UNCHANGED build

AsyncSaveModel ==
    /\ op = NoOp
    /\ \E self \in Built :
          LET r == Broadcast(self, "save_model", <<>>)
          IN  /\ op' = Returned("async_save_model", self, <<>>, r)
              /\ groups' = GroupsAfter(self)
    /\ UNCHANGED build

AsyncRunMethod ==
    /\ op = NoOp
    /\ \E self \in Built, method_name \in MethodNames, args \in CallArgs :
          LET r == RunMethod(self, method_name, args)
          IN  /\ op' = Returned("async_run_method", self, <<method_name>> \o args, r)
              /\ groups' = GroupsAfter(self)
    /\ UNCHANGED build

\* the driver waits on the returned refs (or handles the exception) and is
\* ready for its next call
DriverWait ==
    /\ op # NoOp
    /\ op' = NoOp
    /\ UNCHANGED <<groups, build>>

NextOps ==
    \/ AsyncInitModelFromPretrained
    \/ AsyncFitActorModel
    \/ AsyncSaveModel
    \/ AsyncRunMethod
    \/ DriverWait

SpecOps == InitOps /\ [][NextOps]_vars

----------------------------------------------------------------------------
(* The driver constructing one group and then calling its operations while
   the workers run: actions of SpecDriver *)

\* the arguments the group of SpecDriver is constructed with: the topology
\* varies, the other arguments keep their defaults
DriverInitArgs == OpsInitArgs

\* the driver calls PPORayActorGroup(...) for its group
BeginFirst ==
    /\ build = NoBuild
    /\ groups[GroupOrder[1]] = NoGroup
    /\ \E a \in DriverInitArgs : build' = Start(GroupOrder[1], a)
    /\ UNCHANGED <<groups, op>>

\* a worker finishes, or fails, the execution of a call it was sent
WorkerProgress ==
    /\ op # NoOp
    /\ \E k \in op.pending : op' = [op EXCEPT !.pending = @ \ {k}]
    /\ UNCHANGED <<groups, build>>

\* the group operations
OpStep ==
    \/ AsyncInitModelFromPretrained
    \/ AsyncFitActorModel
    \/ AsyncSaveModel
    \/ AsyncRunMethod

NextDriver ==
    \/ BeginFirst
    \/ DriverStep
    \/ RemoteStep
    \/ OpStep
    \/ WorkerProgress
    \/ DriverWait

SpecDriver == Init /\ [][NextDriver]_vars

----------------------------------------------------------------------------
(* Properties of group construction, checked under Spec *)

Done(g) == groups[g].pc = "done"

\* the worker behind the k-th handle of a group or of a construction
WorkerAt(b, k) == b.actors[b._actor_handlers[k][2]]

\* the constructions whose placement decision has been taken
Decided ==
    {groups[g] : g \in {x \in GroupIds : Done(x)}}
        \cup (IF build.pc \in {"idle", "placement"} THEN {} ELSE {build})

\* C1: a constructed group of world_size = nodes * devices_per_node >= 1 holds
\* exactly world_size handles; the handle at index k is the worker created
\* with rank k and with that world_size; exactly one worker has rank 0.
C1_HandlesInRankOrder ==
    \A g \in GroupIds : Done(g) =>
        LET G == groups[g]
            ws == G._num_nodes * G._num_gpus_per_node
        IN  ws >= 1 =>
              /\ Len(G._actor_handlers) = ws
              /\ \A k \in 0..(ws - 1) :
                    /\ G._actor_handlers[k + 1][1] = g
                    /\ WorkerAt(G, k + 1).args.rank = k
                    /\ WorkerAt(G, k + 1).args.world_size = ws
              /\ Cardinality({n \in 1..Len(G.actors) : G.actors[n].args.rank = 0}) = 1
              /\ Cardinality({G._actor_handlers[k] : k \in 1..ws}) = ws

C1_Witness ==
    \E g \in GroupIds :
        /\ Done(g)
        /\ groups[g]._num_nodes = 2
        /\ groups[g]._num_gpus_per_node = 2
        /\ Len(groups[g]._actor_handlers) = 4

\* C2: in a constructed group whose workers came alive, every worker holds the
\* master_addr and master_port that workers[0].get_master_addr_port() returns;
\* rank 0 was passed no endpoint and assigned its own, every rank >= 1 was
\* passed, and holds, exactly the endpoint fetched from rank 0. A group of
\* more than one worker is constructed only with rank 0 alive.
C2_OneEndpointPerGroup ==
    \A g \in GroupIds : Done(g) =>
        LET G == groups[g]
            w0 == WorkerAt(G, 1)
        IN  /\ G.world_size > 1 => w0.state.alive
            /\ w0.args.master_addr = None
            /\ w0.args.master_port = NonePort
            /\ w0.state.alive =>
                 /\ w0.state._master_addr \in NodeIps
                 /\ w0.state._master_port \in FreePorts
                 /\ \A k \in 1..Len(G._actor_handlers) :
                       LET w == WorkerAt(G, k)
                       IN  /\ w.state.alive
                           /\ <<w.state._master_addr, w.state._master_port>>
                                 = GetMasterAddrPort(w0.state)
                           /\ k > 1 =>
                                 <<w.args.master_addr, w.args.master_port>>
                                    = GetMasterAddrPort(w0.state)

C2_Witness ==
    \E g \in GroupIds :
        /\ Done(g)
        /\ Len(groups[g]._actor_handlers) >= 3
        /\ WorkerAt(groups[g], 3).state._master_addr = "10.0.0.2"
        /\ WorkerAt(groups[g], 3).state._master_port = 29501

\* C3: the placement decision has three outcomes. No placement group supplied
\* and devices_per_node <= 1: nothing is reserved and the workers are unbound.
\* None supplied and devices_per_node > 1: exactly one reservation, of exactly
\* `nodes` bundles, under STRICT_SPREAD, and it is the one used. One supplied:
\* nothing is reserved and the supplied one is used.
C3_PlacementDecision ==
    \A b \in Decided :
        /\ (b.pg_arg = NonePg /\ b._num_gpus_per_node <= 1) =>
              /\ b.requests = <<>>
              /\ b.pg = NonePg
              /\ \A n \in 1..Len(b.actors) : b.actors[n].scheduling_strategy = Unbound
        /\ (b.pg_arg = NonePg /\ b._num_gpus_per_node > 1) =>
              /\ Len(b.requests) = 1
              /\ Len(b.requests[1].bundles) = b._num_nodes
              /\ b.requests[1].strategy = "STRICT_SPREAD"
              /\ b.pg = b.requests[1]
        /\ b.pg_arg # NonePg =>
              /\ b.requests = <<>>
              /\ b.pg = b.pg_arg

C3_Witness ==
    \E g, h \in GroupIds :
        /\ Done(g) /\ Done(h)
        /\ groups[g].pg_arg = NonePg /\ groups[g]._num_gpus_per_node = 2
        /\ groups[g]._num_nodes = 2 /\ Len(groups[g].requests) = 1
        /\ groups[h].pg_arg = SuppliedPg /\ groups[h]._num_gpus_per_node = 2
        /\ groups[h].requests = <<>>

\* C4: in a group that uses a placement group, created or supplied, worker k
\* (rank 0 included) is bound to that placement group at bundle index
\* k \div devices_per_node; in a group without one no worker is bound.
C4_BundleOfRank ==
    \A g \in GroupIds : Done(g) =>
        LET G == groups[g]
        IN  \A k \in 0..(Len(G._actor_handlers) - 1) :
               LET s == WorkerAt(G, k + 1).scheduling_strategy
               IN  IF G.pg # NonePg
                   THEN /\ s.bound
                        /\ s.placement_group = G.pg
                        /\ s.placement_group_bundle_index
                              = k \div G._num_gpus_per_node
                   ELSE s = Unbound

C4_Witness ==
    \E g \in GroupIds :
        /\ Done(g)
        /\ groups[g].pg.kind = "created"
        /\ groups[g]._num_gpus_per_node = 2
        /\ Len(groups[g]._actor_handlers) = 4
        /\ WorkerAt(groups[g], 4).scheduling_strategy.placement_group_bundle_index = 1
        /\ \E h \in GroupIds :
              /\ Done(h)
              /\ groups[h].pg = NonePg
              /\ Len(groups[h]._actor_handlers) = 2

\* C17: a reservation the group creates has one bundle per node; every bundle
\* holds GPU = CPU = devices_per_node; when a custom resource is declared every
\* bundle also holds that resource, by its name, with the per-node amount, and
\* otherwise no bundle holds anything else.
C17_BundleContents ==
    \A b \in Decided : b.pg.kind = "created" =>
        /\ Len(b.pg.bundles) = b._num_nodes
        /\ \A n \in 1..Len(b.pg.bundles) :
              LET B == b.pg.bundles[n]
              IN  /\ {"GPU", "CPU"} \subseteq DOMAIN B
                  /\ B["GPU"] = b._num_gpus_per_node
                  /\ B["CPU"] = b._num_gpus_per_node
                  /\ IF b._resources # NoneList
                     THEN LET name == b._resources.items[1].key
                          IN  /\ DOMAIN B = {"GPU", "CPU", name}
                              /\ B[name] = b._num_resources_per_node
                     ELSE DOMAIN B = {"GPU", "CPU"}

C17_Witness ==
    \E g, h \in GroupIds :
        /\ Done(g) /\ Done(h)
        /\ groups[g].pg.kind = "created"
        /\ groups[g]._num_nodes = 2
        /\ groups[g].pg.bundles[2] = [k \in {"GPU", "CPU", "NPU"} |->
                                        IF k = "NPU" THEN 8 ELSE 2]
        /\ groups[h].pg.kind = "created"
        /\ groups[h]._resources = NoneList
        /\ DOMAIN groups[h].pg.bundles[1] = {"GPU", "CPU"}

\* the workers of a construction bound to bundle j
BoundTo(b, j) ==
    {n \in 1..Len(b.actors) :
        b.actors[n].scheduling_strategy.placement_group_bundle_index = j}

\* the GPU share, in hundredths, that the first n workers of a construction
\* ask of bundle j
RECURSIVE GpuDemand(_, _, _)
GpuDemand(b, j, n) ==
    IF n = 0 THEN 0
    ELSE GpuDemand(b, j, n - 1)
           + (IF n \in BoundTo(b, j) THEN b.actors[n].num_gpus ELSE 0)

\* C20: with created bundles every worker is bound to a bundle index in
\* 0..nodes-1; no bundle is ever bound by more than devices_per_node workers
\* and in the constructed group each of the `nodes` bundles is bound by
\* exactly devices_per_node workers, so with a fraction of at most one the
\* GPU demand on a bundle never exceeds the devices_per_node it reserves.
C20_BundleLoad ==
    \A b \in Decided : b.pg.kind = "created" =>
        /\ \A n \in 1..Len(b.actors) :
              /\ b.actors[n].scheduling_strategy.bound
              /\ b.actors[n].scheduling_strategy.placement_group_bundle_index
                    \in 0..(b._num_nodes - 1)
        /\ \A j \in 0..(b._num_nodes - 1) :
              /\ Cardinality(BoundTo(b, j)) <= b._num_gpus_per_node
              /\ b.pc = "done" => Cardinality(BoundTo(b, j)) = b._num_gpus_per_node
              /\ b.num_gpus_per_actor <= 100 =>
                    GpuDemand(b, j, Len(b.actors)) <= 100 * b.pg.bundles[j + 1]["GPU"]

C20_Witness ==
    \E g \in GroupIds :
        /\ Done(g)
        /\ groups[g].pg.kind = "created"
        /\ groups[g]._num_nodes = 2
        /\ groups[g]._num_gpus_per_node = 2
        /\ groups[g].num_gpus_per_actor = 100
        /\ Cardinality(BoundTo(groups[g], 1)) = 2
        /\ GpuDemand(groups[g], 1, 4) = 200

\* the constructions begun so far: the constructed groups and the one under
\* construction
Begun ==
    {groups[g] : g \in {x \in GroupIds : Done(x)}}
        \cup (IF build.pc = "idle" THEN {} ELSE {build})

\* the rank-0 worker of a construction could not obtain its address or port
MasterUnresolved(b) == b.actors # <<>> /\ ~b.actors[1].state.alive

\* C13 as stated: if rank 0 cannot obtain its address or port, construction
\* fails for every world_size >= 1, a single-worker group included: no group
\* is returned, no worker of rank >= 1 is created and the constructor ends
\* by raising.
C13_UnresolvedMasterIsFatal ==
    \A b \in Begun : MasterUnresolved(b) =>
        /\ b.pc # "done"
        /\ groups[b.gid] = NoGroup
        /\ Len(b.actors) = 1

\* C13, amended: in a group of more than one worker, if rank 0 cannot obtain
\* its address or port the endpoint fetch raises to the caller: no group is
\* returned, rank 0 is the only worker ever created, it is created once, and
\* nothing is requested again. In a single-worker group no endpoint is fetched:
\* the constructor returns the group with its failed worker.
C13_UnresolvedMasterFatalAtFetch ==
    \A b \in Begun : MasterUnresolved(b) =>
        IF b.world_size > 1
        THEN /\ b.pc \in {"fetch", "raised"}
             /\ b.pc = "raised" => b.raised = "RayActorError" /\ b.fetch = "answered"
             /\ groups[b.gid] = NoGroup
             /\ Len(b.actors) = 1
             /\ Len(b._actor_handlers) = 1
             /\ Len(b.requests) <= 1
        ELSE /\ b.pc = "done"
             /\ b.fetch = "none"
             /\ b.raised = None
             /\ Len(b.actors) = 1

C13_Witness ==
    /\ build.pc = "raised"
    /\ build.raised = "RayActorError"
    /\ build.world_size = 4
    /\ MasterUnresolved(build)
    /\ \E g \in GroupIds :
          Done(g) /\ groups[g].world_size = 1 /\ MasterUnresolved(groups[g])

\* C14: the steps of a construction are ordered. A requested reservation is
\* ready before any worker is created; rank 0 is created, with no endpoint
\* passed, before the endpoint fetch is issued; no worker of rank >= 1 is
\* created before the fetch has returned; ranks 1..world_size-1 are created
\* in increasing order, each with the fetched endpoint.
C14_ConstructionOrder ==
    \A b \in Begun :
        /\ (b.actors # <<>> /\ b.requests # <<>>) => b.pg_answer = "ready"
        /\ b.pc = "pg_ready" => b.actors = <<>>
        /\ b.actors # <<>> =>
              /\ b.actors[1].args.rank = 0
              /\ b.actors[1].args.master_addr = None
              /\ b.actors[1].args.master_port = NonePort
        /\ b.fetch # "none" => b.actors # <<>>
        /\ b.fetch = "pending" => Len(b.actors) = 1
        /\ Len(b.actors) > 1 =>
              /\ b.fetch = "answered"
              /\ b.pc \in {"workers", "done"}
              /\ <<b.master_addr, b.master_port>>
                    = GetMasterAddrPort(b.actors[1].state)
        /\ \A n \in 2..Len(b.actors) :
              /\ b.actors[n].args.rank = n - 1
              /\ b.actors[n].args.master_addr = b.master_addr
              /\ b.actors[n].args.master_port = b.master_port
              /\ b.actors[n].args.master_addr # None

C14_Witness ==
    /\ build.pc = "workers"
    /\ build.requests # <<>>
    /\ build.pg_answer = "ready"
    /\ build.fetch = "answered"
    /\ Len(build.actors) = 3
    /\ build.actors[3].args.rank = 2
    /\ build.actors[3].args.master_addr = "10.0.0.2"

\* C15: when the strict-spread bundles the group requested cannot be
\* satisfied, the construction fails with the placement error raised to the
\* caller: no group is returned, no worker is ever created, and nothing is
\* requested under another policy.
C15_RefusedReservationIsFatal ==
    \A b \in Begun : b.pg_answer = "refused" =>
        /\ b.pc \in {"pg_ready", "raised"}
        /\ b.pc = "raised" => b.raised = "PlacementError"
        /\ groups[b.gid] = NoGroup
        /\ b.actors = <<>>
        /\ b._actor_handlers = <<>>
        /\ Len(b.requests) = 1
        /\ \A n \in 1..Len(b.requests) : b.requests[n].strategy = "STRICT_SPREAD"

C15_Witness ==
    /\ build.pc = "raised"
    /\ build.raised = "PlacementError"
    /\ build.pg_answer = "refused"
    /\ build._num_nodes = 2
    /\ build.actors = <<>>

----------------------------------------------------------------------------
(* Properties of async_fit_actor_model, checked under SpecOps *)

IsFit == op.name = "async_fit_actor_model"

\* sizes of the policy group and of a peer group
Size(g) == Len(groups[g]._actor_handlers)

\* the rank a worker was created with
RankOf(h) == ActorOf(h).args.rank

\* numbers of reward sources among the arguments
NumUrls(a) == IF a.remote_rm_urls.isNone THEN 0 ELSE Len(a.remote_rm_urls.items)
NumRewardGroups(a) ==
    IF a.reward_model_groups.isNone THEN 0 ELSE Len(a.reward_model_groups.items)

\* the call raised nothing and reached every policy worker, in rank order
Succeeded ==
    /\ op.raised = None
    /\ Len(op.calls) = Size(op.self)
    /\ \A k \in 1..Len(op.calls) : op.calls[k].actor = <<op.self, k>>

\* the call raised and issued no remote call
FailedClean(error) ==
    /\ op.raised = error
    /\ op.calls = <<>>
    /\ op.refs = <<>>

\* C5: the fit call dispatched to policy worker i carries reference worker
\* reference_group.workers[i % Q] and, when a critic group is given, critic
\* worker critic_group.workers[i % C]; a call that raises nothing dispatches
\* to every policy worker i in 0..P-1. For P = 5 and a peer group of 2 the
\* bound peer indices are 0, 1, 0, 1, 0.
C5_RoundRobinPeers ==
    IsFit =>
        /\ [i \in 1..5 |-> PeerIndex(i - 1, 2)] = <<0, 1, 0, 1, 0>>
        /\ op.raised = None => Len(op.calls) = Size(op.self)
        /\ \A k \in 1..Len(op.calls) :
              LET i == k - 1
                  c == op.calls[k]
              IN  /\ c.actor = <<op.self, k>>
                  /\ RankOf(c.actor) = i
                  /\ c.initial_model =
                        <<op.args.initial_model_group,
                          (i % Size(op.args.initial_model_group)) + 1>>
                  /\ RankOf(c.initial_model) = i % Size(op.args.initial_model_group)
                  /\ op.args.critic_model_group # None =>
                        /\ c.critic_model =
                              <<op.args.critic_model_group,
                                (i % Size(op.args.critic_model_group)) + 1>>
                        /\ RankOf(c.critic_model)
                              = i % Size(op.args.critic_model_group)

C5_Witness ==
    /\ IsFit
    /\ op.raised = None
    /\ Size(op.self) = 4
    /\ Size(op.args.initial_model_group) = 2
    /\ [k \in 1..4 |-> RankOf(op.calls[k].initial_model)] = <<0, 1, 0, 1>>
    /\ [k \in 1..4 |-> RankOf(op.calls[k].critic_model)] = <<0, 1, 0, 1>>

\* C6 as claimed: the reward-worker list of every dispatched fit call has one
\* entry per supplied reward group, in group order, the entry of group g for
\* policy worker i being g.workers[i % len(g.workers)].
C6_RewardWorkersPerGroup ==
    IsFit =>
        \A k \in 1..Len(op.calls) :
            LET rgs == op.args.reward_model_groups.items
                c == op.calls[k]
            IN  /\ Len(c.reward_model) = Len(rgs)
                /\ \A j \in 1..Len(rgs) :
                      c.reward_model[j] = <<rgs[j], ((k - 1) % Size(rgs[j])) + 1>>

\* C6 amended: that holds when no remote reward endpoint is supplied; when one
\* is supplied the reward-worker list of every fit call is empty.
C6_RewardWorkersUnlessRemote ==
    IsFit =>
        \A k \in 1..Len(op.calls) :
            LET rgs == op.args.reward_model_groups.items
                c == op.calls[k]
            IN  IF NumUrls(op.args) = 0
                THEN /\ Len(c.reward_model) = Len(rgs)
                     /\ \A j \in 1..Len(rgs) :
                           c.reward_model[j]
                              = <<rgs[j], ((k - 1) % Size(rgs[j])) + 1>>
                ELSE c.reward_model = <<>>

C6_Witness ==
    /\ IsFit
    /\ op.raised = None
    /\ NumUrls(op.args) = 0
    /\ Size(op.self) = 4
    /\ Len(op.args.reward_model_groups.items) = 2
    /\ Size(op.args.reward_model_groups.items[1]) = 2
    /\ Size(op.args.reward_model_groups.items[2]) = 4
    /\ [j \in 1..2 |-> RankOf(op.calls[4].reward_model[j])] = <<1, 3>>

\* C7: with a critic group of size C, critic_train_remote is true in exactly
\* min(P, C) of the P dispatched fit calls, those of the policy workers of
\* index i < C, and false in the others.
C7_CriticTrainRemote ==
    (IsFit /\ op.raised = None /\ op.args.critic_model_group # None) =>
        LET P == Size(op.self)
            C == Size(op.args.critic_model_group)
        IN  /\ Len(op.calls) = P
            /\ \A k \in 1..P :
                  op.calls[k].critic_train_remote
                     = (IF k - 1 < C THEN "True" ELSE "False")
            /\ Cardinality({k \in 1..P : op.calls[k].critic_train_remote = "True"})
                  = (IF P < C THEN P ELSE C)

C7_Witness ==
    /\ IsFit
    /\ op.raised = None
    /\ Size(op.self) = 4
    /\ op.args.critic_model_group # None
    /\ Size(op.args.critic_model_group) = 2
    /\ [k \in 1..4 |-> op.calls[k].critic_train_remote]
          = <<"True", "True", "False", "False">>

C9_SucceedsWithOneSourceOrFn ==
    (IsFit /\ op.args.initial_model_group # None
           /\ (\/ NumUrls(op.args) = 1
               \/ NumRewardGroups(op.args) = 1
               \/ op.args.reward_fn # None)) =>
        Succeeded

\* C10: called with no critic group, a reference group and a valid reward
\* source, the call raises nothing and every policy worker is dispatched a fit
\* call whose critic worker is absent and whose critic_train_remote is false
\* or absent.
C10_SucceedsWithoutCritic ==
    (IsFit /\ op.args.critic_model_group = None
           /\ op.args.initial_model_group # None
           /\ (\/ NumUrls(op.args) = 1
               \/ (/\ ~op.args.reward_model_groups.isNone
                   /\ (NumRewardGroups(op.args) = 1 \/ op.args.reward_fn # None)))) =>
        /\ Succeeded
        /\ \A k \in 1..Len(op.calls) :
              /\ op.calls[k].critic_model = NoneActor
              /\ op.calls[k].critic_train_remote \in {"False", None}


\* the dispatched fit calls that bind critic worker c (counted from 0) and
\* carry critic_train_remote = True
TrainingOwners(c) ==
    {k \in 1..Len(op.calls) :
        /\ op.calls[k].critic_model = <<op.args.critic_model_group, c + 1>>
        /\ op.calls[k].critic_train_remote = "True"}

\* C16: in async_fit_actor_model with a critic group of size C, for every
\* critic index c at most one policy index i has both i % C = c and
\* critic_train_remote true, whatever the sizes P and C, P > C included.
C16_SingleTrainingOwner ==
    (IsFit /\ op.args.critic_model_group # None) =>
        \A c \in 0..(Size(op.args.critic_model_group) - 1) :
            /\ Cardinality(TrainingOwners(c)) <= 1
            /\ \A k \in TrainingOwners(c) :
                  (k - 1) % Size(op.args.critic_model_group) = c

C16_Witness ==
    /\ IsFit
    /\ op.raised = None
    /\ op.args.critic_model_group # None
    /\ Size(op.self) = 4
    /\ Size(op.args.critic_model_group) = 2
    /\ op.calls[1].critic_model = op.calls[3].critic_model
    /\ TrainingOwners(0) = {1}
    /\ TrainingOwners(1) = {2}

\* an operation has been called and has returned or raised
Called == op.name # "none"

\* the operations that pass their own arguments on to every worker
IsBroadcast ==
    op.name \in {"async_init_model_from_pretrained", "async_save_model", "async_run_method"}

\* the calls issued on the worker of rank k of the called group
CallsOn(k) == {j \in 1..Len(op.calls) : op.calls[j].actor = <<op.self, k + 1>>}

\* C11: every async operation that raises nothing has issued exactly one
\* remote call on each worker of the group and returns exactly world_size
\* futures, the future at position k being the one of the call made on the
\* rank-k worker; a broadcast operation passes the same method name and the
\* same arguments, those it was given, to every worker.
C11_OneCallPerWorkerInRankOrder ==
    (Called /\ op.raised = None) =>
        /\ Len(op.calls) = groups[op.self].world_size
        /\ Len(op.refs) = groups[op.self].world_size
        /\ \A k \in 0..(groups[op.self].world_size - 1) :
              /\ Cardinality(CallsOn(k)) = 1
              /\ op.refs[k + 1].actor[1] = op.self
              /\ RankOf(op.refs[k + 1].actor) = k
              /\ op.refs[k + 1].call \in CallsOn(k)
              /\ op.refs[k + 1].method = op.calls[k + 1].method
        /\ IsBroadcast =>
              \A k \in 1..Len(op.calls) :
                 /\ op.calls[k].method = op.calls[1].method
                 /\ op.calls[k].args = op.calls[1].args
                 /\ op.name = "async_init_model_from_pretrained" =>
                       /\ op.calls[k].method = "init_model_from_pretrained"
                       /\ op.calls[k].args = op.args
                 /\ op.name = "async_save_model" =>
                       /\ op.calls[k].method = "save_model"
                       /\ op.calls[k].args = <<>>
                 /\ op.name = "async_run_method" =>
                       /\ op.calls[k].method = Head(op.args)
                       /\ op.calls[k].args = Tail(op.args)

C11_Witness ==
    /\ op.name = "async_run_method"
    /\ op.raised = None
    /\ op.args = <<"forward", "ckpt">>
    /\ groups[op.self].world_size = 4
    /\ Len(op.refs) = 4
    /\ op.refs[4].actor = <<op.self, 4>>

C19_DispatchAllOrNothing ==
    op.name \in {"async_fit_actor_model", "async_run_method"} =>
        IF op.raised # None
        THEN op.calls = <<>> /\ op.refs = <<>>
        ELSE \A k \in 0..(Size(op.self) - 1) : Cardinality(CallsOn(k)) = 1

C19_Witness ==
    /\ op.name = "async_run_method"
    /\ Head(op.args) = "no_such_method"
    /\ Size(op.self) = 4
    /\ op.raised = "AttributeError"
    /\ op.calls = <<>>

----------------------------------------------------------------------------
(* Properties of the driver's waits, checked under SpecDriver *)

\* the constructor is at one of its two waits and the answer is outstanding
AtWait ==
    \/ (build.pc = "pg_ready" /\ build.pg_answer = "pending")
    \/ (build.pc = "fetch" /\ build.fetch = "pending")

====
